---- MODULE Spec2Model ----
(***************************************************************************)
(* Model of rlc-bitmap.js: a run-length-coded bitmap with a bounded cache  *)
(* of decoded rows.                                                        *)
(*                                                                         *)
(* JS arrays are modelled as TLA+ sequences; the JS index i is the TLA+    *)
(* index i + 1, and At(row, i) reads the JS element row[i].                *)
(***************************************************************************)
EXTENDS Integers, Sequences, FiniteSets, TLC

\* ---------------------------------------------------------------- bounds
MaxArea   == 3
MaxCache  == 3
MaxLen    == 5
MaxRun    == 3

\* ------------------------------------------------------ program constants
DefaultMaxRunLength == 65000
RlcArrayRange == 65536

\* the value JS yields when reading past the end of an array
Undefined == -1

Bits == {0, 1}

VARIABLES
    bitrow, decoded, rlc, pc,                    \* codec harness: input row, decoding, encoding
    dense,                                       \* reference: plain bitmap of the bits set so far
    width, height, cacheMaxItems, maxRunLength,  \* fields set by the constructor
    store, cache, cacheRows,                     \* row store, row cache, eviction order
    ret, err                                     \* what the last call returned or threw

bitmapVars == <<width, height, cacheMaxItems, maxRunLength, store, cache, cacheRows>>
codecVars  == <<bitrow, rlc, decoded, pc>>
vars == <<width, height, cacheMaxItems, maxRunLength, store, cache, cacheRows,
          ret, err, dense, bitrow, rlc, decoded, pc>>

\* ---------------------------------------------------------------- helpers
At(row, i) == IF i >= 0 /\ i < Len(row) THEN row[i + 1] ELSE Undefined

Min(S) == CHOOSE m \in S : \A k \in S : m <= k

Run(n, v) == [k \in 1..n |-> v]

\* new BitArray(width): a zero-filled row
BitArray(w) == Run(w, 0)

\* new RlcArray(rlc): every count is stored in 16 bits
RlcArray(counts) == [k \in 1..Len(counts) |-> counts[k] % RlcArrayRange]

\* ------------------------------------------------------------------ codec
\* mutant: the run may reach one position past the limit (end <= limit)
findRunEndPastLimit(row, start) ==
    LET val   == At(row, start)
        limit == start + maxRunLength + 1
        last  == IF start < Len(row) /\ Len(row) < limit THEN Len(row) ELSE limit
    IN  Min({e \in (start + 1)..last : ~(At(row, e) = val /\ e < limit)})

\* The loop leaves `end` at the least offset past `start` where its condition
\* (row[end] === val && end < limit) fails.  A defined val never matches the
\* undefined read at row.length, so the search stops there at the latest.
findRunEnd(row, start) ==
    LET val   == At(row, start)
        limit == start + maxRunLength
        last  == IF start < Len(row) /\ Len(row) < limit THEN Len(row) ELSE limit
    IN  Min({e \in (start + 1)..last : ~(At(row, e) = val /\ e < limit)})

\* mutant: the end offset of a run is emitted instead of its length
RECURSIVE rlcEncodeLoopEnds(_, _, _)
rlcEncodeLoopEnds(row, rowi, out) ==
    IF rowi < Len(row)
    THEN LET end  == findRunEnd(row, rowi)
             out1 == Append(out, end)
             out2 == IF At(row, end) = At(row, rowi) THEN Append(out1, 0) ELSE out1
         IN  rlcEncodeLoopEnds(row, end, out2)
    ELSE [rlc |-> out, rowi |-> rowi]

\* mutant: the zero-length separator after an overlong run is not emitted
RECURSIVE rlcEncodeLoopNoSeparator(_, _, _)
rlcEncodeLoopNoSeparator(row, rowi, out) ==
    IF rowi < Len(row)
    THEN LET end == findRunEnd(row, rowi)
         IN  rlcEncodeLoopNoSeparator(row, end, Append(out, end - rowi))
    ELSE [rlc |-> out, rowi |-> rowi]

\* the while loop of rlcEncode
RECURSIVE rlcEncodeLoop(_, _, _)
rlcEncodeLoop(row, rowi, out) ==
    IF rowi < Len(row)
    THEN LET end  == findRunEnd(row, rowi)
             out1 == Append(out, end - rowi)
             out2 == IF At(row, end) = At(row, rowi) THEN Append(out1, 0) ELSE out1
         IN  rlcEncodeLoop(row, end, out2)
    ELSE [rlc |-> out, rowi |-> rowi]

rlcEncode(row) ==
    LET first == IF At(row, 0) # 0 THEN <<0>> ELSE <<>>
        loop  == rlcEncodeLoop(row, 0, first)
        out   == IF loop.rowi % 2 = 0 THEN Append(loop.rlc, 0) ELSE loop.rlc
    IN  RlcArray(out)

\* the bit values rlcDecode writes, in the order it writes them
RECURSIVE rlcDecodeRuns(_, _)
rlcDecodeRuns(counts, i) ==
    IF i < Len(counts)
    THEN LET end0 == At(counts, i)
             end1 == At(counts, i + 1)
         IN  Run(end0, 0) \o (IF end1 = Undefined THEN <<>> ELSE Run(end1, 1))
                 \o rlcDecodeRuns(counts, i + 2)
    ELSE <<>>

\* writes land in a zero-filled row of `width` bits; writes past its end are dropped
rlcDecode(counts) ==
    LET written == rlcDecodeRuns(counts, 0)
    IN  [k \in 1..width |-> IF k <= Len(written) THEN written[k] ELSE BitArray(width)[k]]

\* ------------------------------------------------------------ bitmap state
\* The mutable fields of a bitmap object, with the outcome of the call in
\* progress: err is "none" until something throws, ret is the returned value
\* (<<>> for undefined).
State(st, ca, rows) ==
    [store |-> st, cache |-> ca, cacheRows |-> rows, err |-> "none", ret |-> <<>>]

Throw(s, e) == [s EXCEPT !.err = e]

\* delete this.cache[rowId]
Delete(ca, rowId) == [k \in DOMAIN ca \ {rowId} |-> ca[k]]

\* this.cacheRows.length + nitems > this.cacheMaxItems, cacheMaxItems being the
\* fraction num/den (height * .05 is height/20)
OverCapacity(len, nitems) == (len + nitems) * cacheMaxItems.den > cacheMaxItems.num

\* mutant: the newest cached row is evicted instead of the oldest
RECURSIVE freeCacheSpaceNewest(_, _)
freeCacheSpaceNewest(s, nitems) ==
    IF s.err = "none" /\ OverCapacity(Len(s.cacheRows), nitems)
    THEN IF s.cacheRows = <<>> THEN Throw(s, "TypeError")
         ELSE IF s.cacheRows[Len(s.cacheRows)] \notin DOMAIN s.cache
         THEN Throw([s EXCEPT !.cacheRows = SubSeq(s.cacheRows, 1, Len(s.cacheRows) - 1)], "TypeError")
         ELSE LET rowId == s.cacheRows[Len(s.cacheRows)]
                  row   == s.cache[rowId]
              IN  freeCacheSpaceNewest(
                      [s EXCEPT !.cacheRows = SubSeq(s.cacheRows, 1, Len(s.cacheRows) - 1),
                                !.cache = Delete(s.cache, rowId),
                                !.store = IF row.modified
                                          THEN (rowId :> rlcEncode(row.data)) @@ s.store
                                          ELSE s.store],
                      nitems)
    ELSE s

\* mutant: only unmodified rows are written back
RECURSIVE freeCacheSpaceInverted(_, _)
freeCacheSpaceInverted(s, nitems) ==
    IF s.err = "none" /\ OverCapacity(Len(s.cacheRows), nitems)
    THEN IF s.cacheRows = <<>> THEN Throw(s, "TypeError")
         ELSE IF Head(s.cacheRows) \notin DOMAIN s.cache
         THEN Throw([s EXCEPT !.cacheRows = Tail(s.cacheRows)], "TypeError")
         ELSE LET rowId == Head(s.cacheRows)
                  row   == s.cache[rowId]
              IN  freeCacheSpaceInverted(
                      [s EXCEPT !.cacheRows = Tail(s.cacheRows),
                                !.cache = Delete(s.cache, rowId),
                                !.store = IF ~row.modified
                                          THEN (rowId :> rlcEncode(row.data)) @@ s.store
                                          ELSE s.store],
                      nitems)
    ELSE s

\* Evicts from the head of cacheRows while the cache has no room for nitems
\* more rows.  shift() on an empty list yields undefined; reading .modified
\* of an entry the cache does not hold throws, after the shift.
RECURSIVE freeCacheSpace(_, _)
freeCacheSpace(s, nitems) ==
    IF s.err = "none" /\ OverCapacity(Len(s.cacheRows), nitems)
    THEN IF s.cacheRows = <<>> THEN Throw(s, "TypeError")
         ELSE IF Head(s.cacheRows) \notin DOMAIN s.cache
         THEN Throw([s EXCEPT !.cacheRows = Tail(s.cacheRows)], "TypeError")
         ELSE LET rowId == Head(s.cacheRows)
                  row   == s.cache[rowId]
              IN  freeCacheSpace(
                      [s EXCEPT !.cacheRows = Tail(s.cacheRows),
                                !.cache = Delete(s.cache, rowId),
                                !.store = IF row.modified
                                          THEN (rowId :> rlcEncode(row.data)) @@ s.store
                                          ELSE s.store],
                      nitems)
    ELSE s

\* mutant: no room is made before a row is loaded
getRowNoEvict(s, n) ==
    IF n < 0 \/ n > height THEN Throw(s, "row out of bounds")
    ELSE IF n \in DOMAIN s.cache THEN s
    ELSE IF n \notin DOMAIN s.store THEN Throw(s, "TypeError")
         ELSE [s EXCEPT !.cache = (n :> [rowId |-> n, modified |-> FALSE,
                                          data |-> rlcDecode(s.store[n])]) @@ s.cache,
                        !.cacheRows = Append(s.cacheRows, n)]

\* mutant: the row is pushed on cacheRows on a hit too
getRowPushAlways(s, n) ==
    IF n < 0 \/ n > height THEN Throw(s, "row out of bounds")
    ELSE IF n \in DOMAIN s.cache THEN [s EXCEPT !.cacheRows = Append(s.cacheRows, n)]
    ELSE LET f == freeCacheSpace(s, 1)
         IN  IF f.err # "none" THEN f
             ELSE IF n \notin DOMAIN f.store THEN Throw(f, "TypeError")
             ELSE [f EXCEPT !.cache = (n :> [rowId |-> n, modified |-> FALSE,
                                              data |-> rlcDecode(f.store[n])]) @@ f.cache,
                            !.cacheRows = Append(f.cacheRows, n)]

\* mutant: a loaded row is a blank row, not the decoded stored row
getRowBlank(s, n) ==
    IF n < 0 \/ n > height THEN Throw(s, "row out of bounds")
    ELSE IF n \in DOMAIN s.cache THEN s
    ELSE LET f == freeCacheSpace(s, 1)
         IN  IF f.err # "none" THEN f
             ELSE IF n \notin DOMAIN f.store THEN Throw(f, "TypeError")
             ELSE [f EXCEPT !.cache = (n :> [rowId |-> n, modified |-> FALSE,
                                              data |-> BitArray(width)]) @@ f.cache,
                            !.cacheRows = Append(f.cacheRows, n)]

\* On success the row is s.cache[n].data.  On a miss room is made first; then
\* the stored row is decoded, which throws when the store has no row n
\* (rlc.length of undefined), before the entry is created.
getRow(s, n) ==
    IF n < 0 \/ n > height THEN Throw(s, "row out of bounds")
    ELSE IF n \in DOMAIN s.cache THEN s
    ELSE LET f == freeCacheSpace(s, 1)
         IN  IF f.err # "none" THEN f
             ELSE IF n \notin DOMAIN f.store THEN Throw(f, "TypeError")
             ELSE [f EXCEPT !.cache = (n :> [rowId |-> n, modified |-> FALSE,
                                              data |-> rlcDecode(f.store[n])]) @@ f.cache,
                            !.cacheRows = Append(f.cacheRows, n)]

\* row[x] = onOff on a typed array: an index outside the array stores nothing
setBit(row, x, onOff) ==
    IF x >= 0 /\ x < Len(row) THEN [row EXCEPT ![x + 1] = onOff] ELSE row

\* mutant: the stored row is re-encoded on every set
setWriteThrough(s, x, y, onOff) ==
    LET g == getRow(s, y)
    IN  IF g.err # "none" THEN g
        ELSE [g EXCEPT !.cache[y].data = setBit(g.cache[y].data, x, onOff),
                       !.cache[y].modified = TRUE,
                       !.store = (y :> rlcEncode(setBit(g.cache[y].data, x, onOff))) @@ g.store]

\* mutant: the row is not marked modified
setUnmarked(s, x, y, onOff) ==
    LET g == getRow(s, y)
    IN  IF g.err # "none" THEN g
        ELSE [g EXCEPT !.cache[y].data = setBit(g.cache[y].data, x, onOff)]

set(s, x, y, onOff) ==
    LET g == getRow(s, y)
    IN  IF g.err # "none" THEN g
        ELSE [g EXCEPT !.cache[y].data = setBit(g.cache[y].data, x, onOff),
                       !.cache[y].modified = TRUE]

\* the loop of flushChanges: the i-th pass looks up cache[i], not cache[cacheRows[i]]
RECURSIVE flushChangesLoop(_, _)
flushChangesLoop(s, i) ==
    IF i < Len(s.cacheRows)
    THEN IF i \notin DOMAIN s.cache THEN Throw(s, "TypeError")
         ELSE flushChangesLoop(
                  IF s.cache[i].modified
                  THEN [s EXCEPT !.store = (i :> rlcEncode(s.cache[i].data)) @@ s.store]
                  ELSE s,
                  i + 1)
    ELSE s

flushChanges(s) == flushChangesLoop(s, 0)

\* mutant: a read moves the row to the back of the eviction order
getTouches(s, x, y) ==
    LET g == getRow(s, y)
    IN  IF g.err # "none" THEN g
        ELSE [g EXCEPT !.ret = IF At(g.cache[y].data, x) = Undefined
                                THEN <<>> ELSE <<At(g.cache[y].data, x)>>,
                       !.cacheRows = Append(SelectSeq(g.cacheRows, LAMBDA r : r # y), y)]

get(s, x, y) ==
    LET g == getRow(s, y)
    IN  IF g.err # "none" THEN g
        ELSE [g EXCEPT !.ret = IF At(g.cache[y].data, x) = Undefined
                                THEN <<>> ELSE <<At(g.cache[y].data, x)>>]

\* setRow as the constructor uses it: the cache is still empty
setRow(s, row, n) ==
    IF n < 0 \/ n > height THEN Throw(s, "row out of bounds")
    ELSE LET w == [s EXCEPT !.store = (n :> rlcEncode(row)) @@ s.store]
         IN  IF n \in DOMAIN s.cache
             THEN [w EXCEPT !.cache[n].data = row, !.cache[n].modified = TRUE]
             ELSE w

\* the constructor's loop: every row of the store is the encoding of a zero row
RECURSIVE RlcBitmapLoop(_, _)
RlcBitmapLoop(s, i) ==
    IF i < height THEN RlcBitmapLoop(setRow(s, BitArray(width), i), i + 1) ELSE s

EmptyMap == [k \in {} |-> 0]

RlcBitmap == RlcBitmapLoop(State(EmptyMap, EmptyMap, <<>>), 0)

\* options.cacheMaxItems || this.height * .05, as a fraction
CacheMaxItemsOption(opt) ==
    IF opt # 0 THEN [num |-> opt, den |-> 1] ELSE [num |-> height, den |-> 20]

\* ---------------------------------------------------------- bitmap machine
Init ==
    /\ width \in 1..MaxArea
    /\ height \in 1..MaxArea
    /\ width * height <= MaxArea
    /\ \E opt \in 0..MaxCache : cacheMaxItems = CacheMaxItemsOption(opt)
    /\ maxRunLength = DefaultMaxRunLength
    /\ store = RlcBitmap.store
    /\ cache = RlcBitmap.cache
    /\ cacheRows = RlcBitmap.cacheRows
    /\ ret = <<>>
    /\ err = "none"
    /\ dense = [r \in 0..(height - 1) |-> BitArray(width)]
    /\ bitrow = <<>>
    /\ rlc = <<>>
    /\ decoded = <<>>
    /\ pc = "bitmap"

Current == State(store, cache, cacheRows)

Becomes(s) ==
    /\ store' = s.store
    /\ cache' = s.cache
    /\ cacheRows' = s.cacheRows
    /\ ret' = s.ret
    /\ err' = s.err
    /\ UNCHANGED <<width, height, cacheMaxItems, maxRunLength, bitrow, rlc, decoded, pc>>

InRange(x, y) == x >= 0 /\ x < width /\ y >= 0 /\ y < height

Get(x, y) ==
    /\ pc = "bitmap"
    /\ Becomes(get(Current, x, y))
    /\ UNCHANGED dense

Set(x, y, onOff) ==
    /\ pc = "bitmap"
    /\ LET s == set(Current, x, y, onOff)
       IN  /\ Becomes(s)
           /\ dense' = IF s.err = "none" /\ InRange(x, y)
                       THEN [dense EXCEPT ![y] = setBit(dense[y], x, onOff)]
                       ELSE dense

FlushChanges ==
    /\ pc = "bitmap"
    /\ Becomes(flushChanges(Current))
    /\ UNCHANGED dense

Next ==
    \/ \E x \in -1..width, y \in -1..(height + 1) : Get(x, y)
    \/ \E x \in -1..width, y \in -1..(height + 1), onOff \in Bits : Set(x, y, onOff)
    \/ FlushChanges

Spec == Init /\ [][Next]_vars

\* ---------------------------------------------------- constructor machine
\* Before `new RlcBitmap(options)` runs, width, height and cacheMaxItems hold
\* the options as passed: Undefined is a missing width or height, and a
\* missing cacheMaxItems takes the default.
NewInit ==
    /\ width \in -2..MaxArea
    /\ height \in -2..MaxArea
    /\ width * height <= MaxArea
    /\ \E opt \in 0..MaxCache : cacheMaxItems = CacheMaxItemsOption(opt)
    /\ maxRunLength = DefaultMaxRunLength
    /\ store = EmptyMap
    /\ cache = EmptyMap
    /\ cacheRows = <<>>
    /\ ret = <<>>
    /\ err = "none"
    /\ dense = EmptyMap
    /\ bitrow = <<>>
    /\ rlc = <<>>
    /\ decoded = <<>>
    /\ pc = "new"

\* options.width > 0, which is false of a missing option
Positive(v) == v # Undefined /\ v > 0

\* new RlcBitmap(options): throws before any field is set, or fills the store
New ==
    /\ pc = "new"
    /\ IF ~Positive(height) \/ ~Positive(width)
       THEN /\ err' = "width, height required"
            /\ pc' = "failed"
            /\ UNCHANGED <<store, cache, cacheRows, dense>>
       ELSE /\ err' = RlcBitmap.err
            /\ pc' = "bitmap"
            /\ store' = RlcBitmap.store
            /\ cache' = RlcBitmap.cache
            /\ cacheRows' = RlcBitmap.cacheRows
            /\ dense' = [r \in 0..(height - 1) |-> BitArray(width)]
    /\ UNCHANGED <<width, height, cacheMaxItems, maxRunLength, ret, bitrow, rlc, decoded>>

NewNext == New \/ Next

NewSpec == NewInit /\ [][NewNext]_vars

\* ----------------------------------------------------------- codec machine
\* Rows of up to MaxLen bits under run limits up to MaxRun and the default
\* limit, and one row of RlcArrayRange one-bits under the default limit and
\* under a limit of RlcArrayRange.
CodecInit ==
    /\ \/ /\ width \in 0..MaxLen
          /\ maxRunLength \in 1..MaxRun \cup {DefaultMaxRunLength}
          /\ bitrow \in [1..width -> Bits]
       \/ /\ width = RlcArrayRange
          /\ maxRunLength \in {DefaultMaxRunLength, RlcArrayRange}
          /\ bitrow = Run(RlcArrayRange, 1)
    /\ height = 1
    /\ cacheMaxItems = CacheMaxItemsOption(1)
    /\ store = EmptyMap
    /\ cache = EmptyMap
    /\ cacheRows = <<>>
    /\ ret = <<>>
    /\ err = "none"
    /\ dense = EmptyMap
    /\ rlc = <<>>
    /\ decoded = <<>>
    /\ pc = "encode"

CodecEncode ==
    /\ pc = "encode"
    /\ rlc' = rlcEncode(bitrow)
    /\ pc' = "decode"
    /\ UNCHANGED <<bitmapVars, ret, err, dense, bitrow, decoded>>

CodecDecode ==
    /\ pc = "decode"
    /\ decoded' = rlcDecode(rlc)
    /\ pc' = "done"
    /\ UNCHANGED <<bitmapVars, ret, err, dense, bitrow, rlc>>

CodecNext == CodecEncode \/ CodecDecode

CodecSpec == CodecInit /\ [][CodecNext]_vars

\* ----------------------------------------------------------------- claims
CapacityAtLeastOne == cacheMaxItems.num >= cacheMaxItems.den

Rows == 0..(height - 1)
Cols == 0..(width - 1)

HasOne(row) == \E k \in 1..Len(row) : row[k] = 1

\* C1: with a cache capacity of at least 1, in every state reached by get and
\* set calls, get(x, y) for an in-range (x, y) returns without error the value
\* most recently set at (x, y), or 0 if it was never set, whatever was evicted
\* in between.
DenseEquivalence ==
    (pc = "bitmap" /\ CapacityAtLeastOne) =>
        \A y \in Rows, x \in Cols :
            LET s == get(Current, x, y)
            IN  s.err = "none" /\ s.ret = <<At(dense[y], x)>>

\* C1 witness: under capacity 1 a row that was set to 1 has been evicted in
\* favour of another row, and a get of it returns 1.
DenseEquivalenceWitness ==
    /\ pc = "bitmap"
    /\ cacheMaxItems = [num |-> 1, den |-> 1]
    /\ Len(cacheRows) = 1
    /\ \E y \in Rows, x \in Cols :
          /\ y \notin DOMAIN cache
          /\ At(dense[y], x) = 1
          /\ get(Current, x, y).ret = <<1>>

\* C2 as stated: for every width, every row of bits and every maxRunLength >= 1,
\* rlcDecode(rlcEncode(row)) equals row.
RoundTripAnyRunLength == pc = "done" => decoded = bitrow

\* C2 amended: for every width, every row of bits and every maxRunLength from 1
\* to 65535, the largest count an RlcArray element holds,
\* rlcDecode(rlcEncode(row)) equals row.
RoundTripLaw ==
    (pc = "done" /\ maxRunLength < RlcArrayRange) => decoded = bitrow

\* C2 witness: a row with runs shorter than, equal to and longer than
\* maxRunLength has been encoded and decoded back.
RoundTripWitness ==
    /\ pc = "done"
    /\ maxRunLength = 2
    /\ bitrow = <<0, 1, 1, 1, 1>>
    /\ rlc = <<1, 2, 0, 2>>
    /\ decoded = bitrow

\* C3: the cache map and the cacheRows list never hold more than cacheMaxItems
\* entries.
CapacityInvariant ==
    /\ Len(cacheRows) * cacheMaxItems.den <= cacheMaxItems.num
    /\ Cardinality(DOMAIN cache) * cacheMaxItems.den <= cacheMaxItems.num

\* C3 witness: the cache is full and a row that was written has been evicted.
CapacityWitness ==
    /\ pc = "bitmap"
    /\ cacheMaxItems.den = 1
    /\ Len(cacheRows) = cacheMaxItems.num
    /\ Len(cacheRows) >= 2
    /\ \E y \in Rows : y \notin DOMAIN cache /\ HasOne(dense[y])

\* C4: whenever a cache entry with its modified flag set is evicted, the same
\* step leaves a Row Store entry for that row that decodes to exactly the
\* evicted decoded row, so that a get of the row once it is no longer cached
\* returns the values that were set.
WriteBackOnEviction ==
    [][\A r \in DOMAIN cache :
          (cache[r].modified /\ r \notin DOMAIN cache') =>
              /\ r \in DOMAIN store'
              /\ rlcDecode(store'[r]) = cache[r].data
              /\ \A x \in Cols : At(rlcDecode(store'[r]), x) = At(dense'[r], x)]_vars

\* C4 witness: a row holding a 1 bit is no longer cached and its Row Store
\* entry decodes to the row with that bit.
WriteBackWitness ==
    /\ pc = "bitmap"
    /\ \E r \in Rows :
          /\ r \notin DOMAIN cache
          /\ HasOne(dense[r])
          /\ rlcDecode(store[r]) = dense[r]

\* C5: flushChanges, called in any state reached by get and set calls,
\* completes without error, and afterwards the Row Store entry of every cached
\* row decodes to exactly the cached decoded row.
FlushWritesBack ==
    [][FlushChanges =>
          /\ err' = "none"
          /\ \A r \in DOMAIN cache' :
                r \in DOMAIN store' /\ rlcDecode(store'[r]) = cache'[r].data]_vars

\* C6: a flushChanges that completes leaves the cached rows, their decoded
\* contents and the eviction order as they were, and leaves no cached entry
\* with its modified flag set.
FlushLeavesCacheClean ==
    [][(FlushChanges /\ err' = "none") =>
          /\ cacheRows' = cacheRows
          /\ DOMAIN cache' = DOMAIN cache
          /\ \A r \in DOMAIN cache :
                cache'[r].data = cache[r].data /\ ~cache'[r].modified]_vars

\* the rows that stay cached when the k oldest are evicted, in cacheRows order
Kept(k) == SubSeq(cacheRows, k + 1, Len(cacheRows))

\* a call that leaves the cache as s evicts the entries inserted longest ago (a
\* prefix of cacheRows), keeps the others in their order and appends a newly
\* loaded row at the end
FifoStep(s) ==
    \E k \in 0..Len(cacheRows) :
        /\ \/ s.cacheRows = Kept(k)
           \/ \E n \in 0..height : s.cacheRows = Append(Kept(k), n)
        /\ DOMAIN cache \ DOMAIN s.cache = {cacheRows[j] : j \in 1..k}

\* C7: the eviction victim is always the cached entry inserted longest ago, and
\* a get or set of a row that is already cached changes neither the eviction
\* order nor the set of cached rows.
FifoEviction ==
    pc = "bitmap" =>
        \A y \in -1..(height + 1), x \in -1..width, onOff \in Bits :
            \A s \in {get(Current, x, y), set(Current, x, y, onOff)} :
                /\ FifoStep(s)
                /\ y \in DOMAIN cache =>
                       s.cacheRows = cacheRows /\ DOMAIN s.cache = DOMAIN cache

\* C7 witness: with capacity 2, after rows 0, 1 and 2 were accessed, row 0,
\* which was written, is the one that is gone, and rows 1 and 2 remain in
\* insertion order.
FifoWitness ==
    /\ pc = "bitmap"
    /\ cacheMaxItems = [num |-> 2, den |-> 1]
    /\ cacheRows = <<1, 2>>
    /\ DOMAIN cache = {1, 2}
    /\ HasOne(dense[0])

\* C8: get(x, y) and set(x, y, v) with x < 0 or x >= width fail with an error
\* instead of returning a value or marking the row modified.
ColumnBoundsCheck ==
    [][\A y \in Rows, x \in {-1, width}, onOff \in Bits :
          (Get(x, y) \/ Set(x, y, onOff)) => err' # "none"]_vars

\* C9: a get or set that raises an error, for any x and any y, leaves the Row
\* Store, the cache entries and the eviction order exactly as they were.
FailedCallLeavesState ==
    [][\A y \in -1..(height + 1), x \in -1..width, onOff \in Bits :
          ((Get(x, y) \/ Set(x, y, onOff)) /\ err' # "none") =>
              store' = store /\ cache' = cache /\ cacheRows' = cacheRows]_vars

\* C10: get and set with y < 0 or y > height are rejected with a row out of
\* bounds error; with 0 <= y <= height they are not, and with y = height (and a
\* capacity of at least 1) they resolve row y through the cache like any other
\* row.
InclusiveRowBound ==
    [][\A y \in -1..(height + 1), x \in Cols, onOff \in Bits :
          (Get(x, y) \/ Set(x, y, onOff)) =>
              IF y < 0 \/ y > height
              THEN err' = "row out of bounds"
              ELSE /\ err' # "row out of bounds"
                   /\ (y = height /\ CapacityAtLeastOne) =>
                          err' = "none" /\ y \in DOMAIN cache']_vars

\* C11: the cache capacity is at least 1 for every height >= 1, also when
\* cacheMaxItems is omitted, so the first get or set on a freshly constructed
\* bitmap succeeds and caches its row.
CapacityFloor ==
    [][\A y \in Rows, x \in Cols, onOff \in Bits :
          (cacheRows = <<>> /\ (Get(x, y) \/ Set(x, y, onOff))) =>
              CapacityAtLeastOne /\ err' = "none" /\ y \in DOMAIN cache']_vars

\* C12: constructing with width or height missing, zero or negative fails and
\* produces no object; constructing with width > 0 and height > 0 yields an
\* empty cache and a Row Store of height entries that each decode to an
\* all-zero row of length width, so every in-range get on the fresh bitmap
\* returns 0.
Construction ==
    [][New =>
          IF Positive(width) /\ Positive(height)
          THEN /\ pc' = "bitmap"
               /\ err' = "none"
               /\ cache' = EmptyMap
               /\ cacheRows' = <<>>
               /\ DOMAIN store' = Rows
               /\ \A r \in Rows : rlcDecode(store'[r]) = BitArray(width)
               /\ \A y \in Rows, x \in Cols :
                     LET s == get(State(store', cache', cacheRows'), x, y)
                     IN  s.err = "none" /\ s.ret = <<0>>
          ELSE /\ pc' = "failed"
               /\ err' # "none"
               /\ store' = EmptyMap /\ cache' = EmptyMap /\ cacheRows' = <<>>]_vars

\* the row offset at which the k-th count of an encoding starts
RECURSIVE RunStart(_, _)
RunStart(counts, k) == IF k <= 1 THEN 0 ELSE RunStart(counts, k - 1) + counts[k - 1]

\* the row has a run of more than maxRunLength equal bits
HasLongRun(row) ==
    \E a \in 0..(Len(row) - maxRunLength - 1) :
        \A j \in 1..maxRunLength : At(row, a + j) = At(row, a)

\* C13: every count rlcEncode emits is between 0 and maxRunLength; where a run
\* of the row goes on past the bits of a count, that count is maxRunLength and
\* the next count, a run of the other value, is 0; and the encoding of a row
\* with a run longer than maxRunLength decodes back to the row, at its length.
OverflowChaining ==
    /\ pc \in {"decode", "done"} =>
          /\ \A k \in 1..Len(rlc) : rlc[k] >= 0 /\ rlc[k] <= maxRunLength
          /\ \A k \in 1..Len(rlc) :
                LET start == RunStart(rlc, k)
                IN  (rlc[k] > 0 /\ At(bitrow, start + rlc[k]) = At(bitrow, start)) =>
                        /\ rlc[k] = maxRunLength
                        /\ k < Len(rlc)
                        /\ rlc[k + 1] = 0
    /\ (pc = "done" /\ HasLongRun(bitrow)) =>
          Len(decoded) = Len(bitrow) /\ decoded = bitrow

\* C13 witness: five one-bits under a run limit of 2 are encoded as the
\* sub-runs 2, 2, 1 with zero-length runs of zero-bits between them, and
\* decoded back.
OverflowChainingWitness ==
    /\ pc = "done"
    /\ maxRunLength = 2
    /\ bitrow = <<1, 1, 1, 1, 1>>
    /\ rlc = <<0, 2, 0, 2, 0, 1>>
    /\ decoded = bitrow

\* C14: for every row, rlcEncode returns an even number of counts.
EvenRunCount == pc \in {"decode", "done"} => Len(rlc) % 2 = 0

\* C15: a get(x, y) of a row y that is already cached leaves the Row Store,
\* the cache entries with their flags and decoded rows, and the eviction order
\* unchanged.
CacheHitIsPure ==
    pc = "bitmap" =>
        \A y \in DOMAIN cache, x \in -1..width :
            LET s == get(Current, x, y)
            IN  /\ s.err = "none"
                /\ s.store = store
                /\ s.cache = cache
                /\ s.cacheRows = cacheRows

\* C15 witness: the only cached row, written but not yet written back, has
\* just been read by a get that returned 1.
CacheHitWitness ==
    /\ pc = "bitmap"
    /\ ret = <<1>>
    /\ \E y \in Rows :
          /\ cacheRows = <<y>>
          /\ cache[y].modified
          /\ HasOne(cache[y].data)
          /\ ~HasOne(rlcDecode(store[y]))

\* C16: a get or set changes the Row Store entry only of a row that it evicts
\* and whose modified flag is set; set(x, y, v) leaves the entry of row y as it
\* is; a call that evicts only unmodified entries leaves the Row Store
\* unchanged.
LazyStoreUpdate ==
    pc = "bitmap" =>
        \A y \in -1..(height + 1), x \in -1..width, onOff \in Bits :
            /\ \A s \in {get(Current, x, y), set(Current, x, y, onOff)} :
                  /\ DOMAIN s.store = DOMAIN store
                  /\ \A r \in DOMAIN store :
                        s.store[r] # store[r] =>
                            r \in DOMAIN cache /\ cache[r].modified /\ r \notin DOMAIN s.cache
            /\ y \in DOMAIN store => set(Current, x, y, onOff).store[y] = store[y]

\* C16 witness: one row was written and evicted, so that its Row Store entry
\* holds the bit, while another was written and is still cached, its Row Store
\* entry still blank.
LazyStoreWitness ==
    /\ pc = "bitmap"
    /\ \E y \in DOMAIN cache :
          /\ cache[y].modified
          /\ HasOne(cache[y].data)
          /\ ~HasOne(rlcDecode(store[y]))
    /\ \E r \in Rows : r \notin DOMAIN cache /\ HasOne(rlcDecode(store[r]))

\* C17: in every state reached by get, set and flushChanges calls, failed ones
\* included, cacheRows holds no row index twice and holds exactly the row
\* indices that have an entry in the cache map.
CacheIndexConsistency ==
    /\ \A i, j \in 1..Len(cacheRows) : cacheRows[i] = cacheRows[j] => i = j
    /\ {cacheRows[i] : i \in 1..Len(cacheRows)} = DOMAIN cache
    /\ \A r \in DOMAIN cache : cache[r].rowId = r

\* C17 witness: a call has failed with two rows cached.
CacheIndexWitness ==
    /\ pc = "bitmap"
    /\ err = "TypeError"
    /\ Len(cacheRows) = 2
    /\ Cardinality(DOMAIN cache) = 2

\* C18: after every step, the Row Store entry of each cached row whose
\* modified flag is not set decodes to exactly the entry's decoded row; and an
\* entry that stays cached never goes from modified to unmodified.
CleanEntriesMirrorStore ==
    [][/\ \A r \in DOMAIN cache' :
             ~cache'[r].modified =>
                 r \in DOMAIN store' /\ rlcDecode(store'[r]) = cache'[r].data
       /\ \A r \in DOMAIN cache \cap DOMAIN cache' :
             cache[r].modified => cache'[r].modified]_vars

\* C18 witness: a row holding a 1 bit is cached unmodified, reloaded from the
\* Row Store after it was written back.
CleanEntriesWitness ==
    /\ pc = "bitmap"
    /\ \E r \in DOMAIN cache :
          /\ ~cache[r].modified
          /\ HasOne(cache[r].data)
          /\ rlcDecode(store[r]) = cache[r].data

RECURSIVE SumCounts(_, _)
SumCounts(counts, k) == IF k = 0 THEN 0 ELSE SumCounts(counts, k - 1) + counts[k]

\* C19: in every state reached from construction by get, set and flushChanges
\* calls, the Row Store holds an encoded row for exactly the row indices
\* 0..height-1, and the counts of each stored row sum to width.
WellFormedStore ==
    pc = "bitmap" =>
        /\ DOMAIN store = Rows
        /\ \A r \in Rows : SumCounts(store[r], Len(store[r])) = width

\* C19 witness: a row with two runs has been written back to the Row Store.
WellFormedStoreWitness ==
    /\ pc = "bitmap"
    /\ \E r \in Rows :
          /\ Cardinality({k \in 1..Len(store[r]) : store[r][k] > 0}) >= 2
          /\ SumCounts(store[r], Len(store[r])) = width

====
